---- MODULE Spec2Model ----
(***************************************************************************)
(* A model of the Subchannel class of grpc-js                              *)
(* (packages/grpc-js/src/subchannel.ts): the connectivity state machine,   *)
(* the connection establisher and its session event handlers, the          *)
(* keepalive timers, the two reference counters, the backoff timer and the *)
(* two listener arrays.                                                    *)
(*                                                                         *)
(* Every method of the class is a pure operator from a subchannel record   *)
(* to a subchannel record; every action of the state machine applies one   *)
(* whole method, event handler or timer callback, the listeners it calls   *)
(* and what those call in turn included.                                   *)
(***************************************************************************)
EXTENDS Integers, Sequences, FiniteSets, TLC

----------------------------------------------------------------------------
(* Bounds of the model *)

\* upper bound of callRefcount and of refcount
MaxRefs ==
  1
\* greatest length of the stateListeners array
MaxListeners ==
  1
\* length of a sequence of reference-counting calls followed from construction
MaxRefCalls ==
  4
\* number of keepalive probes followed one by one
MaxProbes ==
  2
\* number of listener functions of distinct behaviour registered at a time
MaxRegistered ==
  2

----------------------------------------------------------------------------
(* Program constants *)

IDLE == "IDLE"
CONNECTING == "CONNECTING"
READY == "READY"
TRANSIENT_FAILURE == "TRANSIENT_FAILURE"

ConnectivityState == {IDLE, CONNECTING, READY, TRANSIENT_FAILURE}

\* ~(1 << 31)
KEEPALIVE_MAX_TIME_MS ==
  2147483647

\* http2.constants.NGHTTP2_ENHANCE_YOUR_CALM
NGHTTP2_ENHANCE_YOUR_CALM ==
  11

tooManyPingsData == "too_many_pings"

\* the error codes and payloads a GOAWAY frame is drawn from
GoawayCodes == {0, NGHTTP2_ENHANCE_YOUR_CALM}
GoawayData == {tooManyPingsData, "too_many_ping"}

\* values of the 'grpc.keepalive_time_ms' option (absent: the default maximum)
KeepaliveTimeOptions == {KEEPALIVE_MAX_TIME_MS \div 2, KEEPALIVE_MAX_TIME_MS}

\* this.session === null
NoSession == "null"
\* A session object is named by its standing: Attached is the object
\* this.session refers to, Superseded any object made by an earlier
\* http2.connect that this.session no longer refers to.
Attached == "attached"
Superseded == "superseded"

\* the listener functions registered by the callers
ListenerIds == {"listener"}

\* Listener functions that call back into the subchannel while they run.  A
\* Replacer hands over to its Heir: it registers the Heir and unregisters
\* itself and "listener".  A Reconnector calls startConnecting() when it is
\* told of IDLE.  A Once disconnect listener unregisters itself.
Replacer == "replacer"
Heir == "heir"
Reconnector == "reconnector"
Once == "once"
StateListenerIds == ListenerIds \cup {Replacer, Reconnector}
DisconnectListenerIds == ListenerIds \cup {Once}

\* what a specification may follow object by object instead of as "at least
\* one exists" or not at all: the keepalive probes, what each state
\* listener was told last, the sockets of the sessions
Probes == "probes"
Listeners == "listeners"
Sockets == "sockets"

\* a state listener that has not been called since it was registered
NotTold == "none"

----------------------------------------------------------------------------
VARIABLES
  connectivityState,   \* this.connectivityState
  session,             \* this.session: Attached, or NoSession
  continueConnecting,  \* this.continueConnecting
  stateListeners,      \* this.stateListeners: a sequence of listener ids
  disconnectListeners, \* this.disconnectListeners: a sequence of listener ids
  backoffTimeout,      \* this.backoffTimeout: [running, initial]
  keepaliveTimeMs,     \* this.keepaliveTimeMs
  keepaliveIntervalId, \* TRUE iff the timer this.keepaliveIntervalId is pending
  keepaliveTimeoutId,  \* TRUE iff the timer this.keepaliveTimeoutId is pending
  callRefcount,        \* this.callRefcount
  refcount,            \* this.refcount
  attachedSession,     \* the session object this.session refers to
  superseded,          \* TRUE iff some superseded session object is alive
  pings,               \* TRUE iff the transport holds a ping callback
  orphanInterval,      \* TRUE iff a setInterval timer no field refers to is pending
  orphanTimeout,       \* TRUE iff a setTimeout timer no field refers to is pending
  scope,               \* what this behaviour follows object by object
  probes,              \* the probes sendPing made, oldest first, when followed
  supersededSocket,    \* TRUE iff the socket of some superseded session object
                       \* is open with a 'close' handler, when followed
  lastTold,            \* the newState each state listener was called with
                       \* last, when followed
  lastOp,              \* the call, event or timer callback that ran last
  notified,            \* the state listener calls it made, in order
  refEpisode           \* the reference-counting calls made since construction

vars == <<connectivityState, session, continueConnecting, stateListeners,
          disconnectListeners, supersededSocket, lastTold,
          backoffTimeout, keepaliveTimeMs, keepaliveIntervalId,
          keepaliveTimeoutId, callRefcount, refcount, attachedSession,
          superseded, pings, orphanInterval, orphanTimeout, scope, probes,
          lastOp, notified, refEpisode>>

----------------------------------------------------------------------------
(* The subchannel as a record.  ret, notified, threw, attached, toldBefore *)
(* and disconnected are the outputs of the running method: the values      *)
(* transitionToState returned, the state listener calls made, whether an   *)
(* exception left the method, whether a stream was attached to the call,   *)
(* what the listener of each call had been told last, the disconnect       *)
(* listener calls made.                                                    *)
(*                                                                         *)
(* The objects no field of the subchannel refers to any more are kept as   *)
(* "at least one exists": superseded session objects that have not emitted *)
(* 'close', ping callbacks the transport holds, timers whose handle was    *)
(* overwritten while they were pending.  Each may act whenever one exists, *)
(* so the model covers any number of them.  A behaviour whose scope names  *)
(* the probes, the listeners or the sockets follows those one by one.      *)

\* the fields of a record that are state of the program
Core(s) ==
  [connectivityState |-> s.connectivityState,
   session |-> s.session,
   continueConnecting |-> s.continueConnecting,
   stateListeners |-> s.stateListeners,
   disconnectListeners |-> s.disconnectListeners,
   supersededSocket |-> s.supersededSocket,
   backoffTimeout |-> s.backoffTimeout,
   keepaliveTimeMs |-> s.keepaliveTimeMs,
   keepaliveIntervalId |-> s.keepaliveIntervalId,
   keepaliveTimeoutId |-> s.keepaliveTimeoutId,
   callRefcount |-> s.callRefcount,
   refcount |-> s.refcount,
   attachedSession |-> s.attachedSession,
   superseded |-> s.superseded,
   pings |-> s.pings,
   orphanInterval |-> s.orphanInterval,
   orphanTimeout |-> s.orphanTimeout,
   probes |-> s.probes]

\* the outputs of a method that has not run yet
NoOutput ==
  [ret |-> <<>>, notified |-> <<>>, threw |-> FALSE, attached |-> FALSE,
   toldBefore |-> <<>>, disconnected |-> <<>>]

Sub ==
  [connectivityState |-> connectivityState,
   session |-> session,
   continueConnecting |-> continueConnecting,
   stateListeners |-> stateListeners,
   disconnectListeners |-> disconnectListeners,
   supersededSocket |-> supersededSocket,
   lastTold |-> lastTold,
   backoffTimeout |-> backoffTimeout,
   keepaliveTimeMs |-> keepaliveTimeMs,
   keepaliveIntervalId |-> keepaliveIntervalId,
   keepaliveTimeoutId |-> keepaliveTimeoutId,
   callRefcount |-> callRefcount,
   refcount |-> refcount,
   attachedSession |-> attachedSession,
   superseded |-> superseded,
   pings |-> pings,
   orphanInterval |-> orphanInterval,
   orphanTimeout |-> orphanTimeout,
   scope |-> scope,
   probes |-> probes] @@ NoOutput

\* a session object: alive until it emits 'close'; 'connect' and 'goaway' are
\* listened to with once()
\* socketClose: its socket is open with a 'close' handler of the subchannel
NewSession ==
  [alive |-> TRUE, connected |-> FALSE, goaway |-> FALSE, socketClose |-> FALSE]
NoObject ==
  [alive |-> FALSE, connected |-> FALSE, goaway |-> FALSE, socketClose |-> FALSE]

----------------------------------------------------------------------------
(* BackoffTimeout (./backoff-timeout): runOnce, stop, reset *)

BackoffRunOnce(b) ==
  IF b.running THEN b ELSE [running |-> TRUE, initial |-> FALSE]

BackoffStop(b) ==
  [b EXCEPT !.running = FALSE]

BackoffReset(b) ==
  [b EXCEPT !.initial = TRUE]

----------------------------------------------------------------------------
(* Private methods *)

startBackoff(s) ==
  [s EXCEPT !.backoffTimeout = BackoffRunOnce(@)]

stopBackoff(s) ==
  [s EXCEPT !.backoffTimeout = BackoffReset(BackoffStop(@))]

\* a probe of sendPing: whether session.ping was reached, whether its session
\* is the one this.session refers to, what became of its callback ("none",
\* "acked" by the peer, "cancelled" with its session) and of its setTimeout
\* timer ("pending", "fired", "cleared")
NewProbe(sent) ==
  [sent |-> sent, current |-> sent, answer |-> "none", timer |-> "pending"]

\* the timer this.keepaliveTimeoutId refers to is the one of the latest probe
setLatestTimer(s, to) ==
  IF s.probes # <<>> /\ s.probes[Len(s.probes)].timer = "pending"
    THEN [s EXCEPT !.probes[Len(s.probes)].timer = to]
    ELSE s

\* clearTimeout(this.keepaliveTimeoutId)
clearKeepaliveTimeout(s) ==
  [setLatestTimer(s, "cleared") EXCEPT !.keepaliveTimeoutId = FALSE]

\* setTimeout into keepaliveTimeoutId (a timer the field referred to stays
\* pending), then session!.ping: a TypeError when session is null
sendPing(s) ==
  LET t == [s EXCEPT !.orphanTimeout = @ \/ s.keepaliveTimeoutId,
                     !.keepaliveTimeoutId = TRUE]
      sent == t.session # NoSession
      u == IF Probes \in t.scope
             THEN [t EXCEPT !.probes = Append(@, NewProbe(sent))]
             ELSE t
  IN IF sent THEN [u EXCEPT !.pings = TRUE] ELSE [u EXCEPT !.threw = TRUE]

\* setInterval into keepaliveIntervalId (a timer the field referred to stays
\* pending), then sendPing
startKeepalivePings(s) ==
  sendPing([s EXCEPT !.orphanInterval = @ \/ s.keepaliveIntervalId,
                     !.keepaliveIntervalId = TRUE])

stopKeepalivePings(s) ==
  [clearKeepaliveTimeout(s) EXCEPT !.keepaliveIntervalId = FALSE]

\* the probes made on a session object this.session no longer refers to
leaveProbes(s) ==
  [s EXCEPT !.probes = [i \in DOMAIN @ |-> [@[i] EXCEPT !.current = FALSE]]]

\* if (this.session) { this.session.close(); } this.session = null;
\* the object is superseded, and lives until it emits 'close'
closeSession(s) ==
  [leaveProbes(s) EXCEPT !.superseded = @ \/ (s.session # NoSession /\ s.attachedSession.alive),
            !.supersededSocket = @ \/ s.attachedSession.socketClose,
            !.attachedSession = NoObject,
            !.session = NoSession]

\* http2.connect makes a session object; this.session = session
startConnectingInternal(s) ==
  [leaveProbes(s) EXCEPT !.superseded = @ \/ (s.session # NoSession /\ s.attachedSession.alive),
            !.supersededSocket = @ \/ s.attachedSession.socketClose,
            !.attachedSession = NewSession,
            !.session = Attached]

\* the switch of transitionToState, one operator per case
\* this.session!.socket.once('close', ...): a TypeError when session is null
enterREADY(s) ==
  LET b == stopBackoff(s)
  IN IF b.session = NoSession
       THEN [b EXCEPT !.threw = TRUE]
       ELSE IF Sockets \in b.scope
              THEN [b EXCEPT !.attachedSession.socketClose = TRUE]
              ELSE b

\* a variant of enterCONNECTING that does not start the backoff timer
enterCONNECTING_NoBackoff(s) ==
  [startConnectingInternal(s) EXCEPT !.continueConnecting = FALSE]

\* a variant of enterCONNECTING that leaves continueConnecting as it is
enterCONNECTING_KeepsFlag(s) ==
  startConnectingInternal(startBackoff(s))

enterCONNECTING(s) ==
  [startConnectingInternal(startBackoff(s)) EXCEPT !.continueConnecting = FALSE]

\* a variant of enterTRANSIENT_FAILURE that leaves this.session as it is
enterTRANSIENT_FAILURE_KeepsSession(s) ==
  stopKeepalivePings(s)

enterTRANSIENT_FAILURE(s) ==
  stopKeepalivePings(closeSession(s))

\* a variant of enterIDLE that leaves this.session as it is
enterIDLE_KeepsSession(s) ==
  stopKeepalivePings(stopBackoff(s))

enterIDLE(s) ==
  stopKeepalivePings(closeSession(stopBackoff(s)))

\* push; a listener registered anew has not been told anything
addConnectivityStateListener(s, listener) ==
  [s EXCEPT !.stateListeners = Append(@, listener),
            !.lastTold = IF listener \in DOMAIN @
                           THEN [@ EXCEPT ![listener] = NotTold]
                           ELSE @]

\* indexOf, then splice(listenerIndex, 1)
removeConnectivityStateListener(s, listener) ==
  LET l == s.stateListeners
      at == {i \in 1..Len(l) : l[i] = listener}
  IN IF at = {} THEN s
     ELSE LET listenerIndex == CHOOSE i \in at : \A j \in at : i <= j
          IN [s EXCEPT !.stateListeners =
                SubSeq(l, 1, listenerIndex - 1) \o SubSeq(l, listenerIndex + 1, Len(l))]

addDisconnectListener(s, listener) ==
  [s EXCEPT !.disconnectListeners = Append(@, listener)]

\* indexOf, then splice(listenerIndex, 1)
removeDisconnectListener(s, listener) ==
  LET l == s.disconnectListeners
      at == {i \in 1..Len(l) : l[i] = listener}
  IN IF at = {} THEN s
     ELSE LET listenerIndex == CHOOSE i \in at : \A j \in at : i <= j
          IN [s EXCEPT !.disconnectListeners =
                SubSeq(l, 1, listenerIndex - 1) \o SubSeq(l, listenerIndex + 1, Len(l))]

RECURSIVE startConnecting(_)

\* what a state listener does with listener(this, previousState, newState)
stateListenerBody(s, listener, previousState, newState) ==
  CASE listener = Replacer ->
         removeConnectivityStateListener(
           removeConnectivityStateListener(
             addConnectivityStateListener(s, Heir), Replacer), "listener")
    [] listener = Reconnector ->
         IF newState = IDLE THEN startConnecting(s) ELSE s
    [] OTHER -> s

\* a variant of iterated that reads this.stateListeners itself
iterated_Live(s, copy) ==
  s.stateListeners

\* the array the for..of loop reads: the shallow copy [...this.stateListeners]
iterated(s, copy) ==
  copy

RECURSIVE notifyStateListeners(_, _, _, _, _)

\* for (const listener of [...this.stateListeners]) from its i-th step on
notifyStateListeners(s, copy, i, previousState, newState) ==
  LET array == iterated(s, copy)
  IN IF i > Len(array) THEN s
     ELSE LET listener == array[i]
              told == IF Listeners \in s.scope
                        THEN [s EXCEPT !.toldBefore = Append(@, s.lastTold[listener]),
                                       !.lastTold[listener] = newState]
                        ELSE s
              called == [told EXCEPT !.notified =
                           Append(@, <<listener, previousState, newState>>)]
          IN notifyStateListeners(
               stateListenerBody(called, listener, previousState, newState),
               copy, i + 1, previousState, newState)

\* the state change, its entry action and the calls of the listeners; an
\* exception of the entry action leaves transitionToState
doTransition(s, newState) ==
  LET previousState == s.connectivityState
      a == [s EXCEPT !.connectivityState = newState]
      b == CASE newState = READY -> enterREADY(a)
             [] newState = CONNECTING -> enterCONNECTING(a)
             [] newState = TRANSIENT_FAILURE -> enterTRANSIENT_FAILURE(a)
             [] newState = IDLE -> enterIDLE(a)
  IN IF b.threw THEN b
     ELSE [notifyStateListeners(b, b.stateListeners, 1, previousState, newState)
             EXCEPT !.ret = Append(@, TRUE)]

\* a variant of transitionToState without the check of oldStates
transitionToState_Unguarded(s, oldStates, newState) ==
  doTransition(s, newState)

transitionToState(s, oldStates, newState) ==
  IF s.connectivityState \notin oldStates
    THEN [s EXCEPT !.ret = Append(@, FALSE)]
    ELSE doTransition(s, newState)

checkBothRefcounts(s) ==
  IF s.callRefcount = 0 /\ s.refcount = 0
    THEN transitionToState(s, {CONNECTING, IDLE, READY}, TRANSIENT_FAILURE)
    ELSE s

----------------------------------------------------------------------------
(* Public methods *)

\* an exception of startKeepalivePings leaves callRef before the increment
callRef(s) ==
  IF s.callRefcount = 0
    THEN LET k == startKeepalivePings(s)
         IN IF k.threw THEN k ELSE [k EXCEPT !.callRefcount = @ + 1]
    ELSE [s EXCEPT !.callRefcount = @ + 1]

callUnref(s) ==
  LET d == [s EXCEPT !.callRefcount = @ - 1]
  IN IF d.callRefcount = 0
       THEN checkBothRefcounts(stopKeepalivePings(d))
       ELSE d

ref(s) ==
  [s EXCEPT !.refcount = @ + 1]

unref(s) ==
  checkBothRefcounts([s EXCEPT !.refcount = @ - 1])

unrefIfOneRef(s) ==
  IF s.refcount = 1 THEN unref(s) ELSE s

\* this.session!.request: a TypeError when session is null; an http2 session
\* that is still connecting takes the request and opens the stream on connect
startCallStream(s) ==
  IF s.session = NoSession
    THEN [s EXCEPT !.threw = TRUE]
    ELSE [s EXCEPT !.attached = TRUE]

\* a variant of startConnecting that sets the flag in any state but IDLE
startConnecting_AnyState(s) ==
  LET t == transitionToState(s, {IDLE}, CONNECTING)
  IN IF ~t.ret[Len(t.ret)]
       THEN [t EXCEPT !.continueConnecting = TRUE]
       ELSE t

startConnecting(s) ==
  LET t == transitionToState(s, {IDLE}, CONNECTING)
  IN IF ~t.ret[Len(t.ret)] /\ t.connectivityState = TRANSIENT_FAILURE
       THEN [t EXCEPT !.continueConnecting = TRUE]
       ELSE t

resetBackoff(s) ==
  transitionToState([s EXCEPT !.backoffTimeout = BackoffReset(@)],
                    {TRANSIENT_FAILURE}, CONNECTING)

----------------------------------------------------------------------------
(* Callbacks: the backoff timer, the keepalive timers, the session events *)

\* a variant of backoffCallback that does not read continueConnecting
backoffCallback_AlwaysIdle(s) ==
  transitionToState(s, {TRANSIENT_FAILURE, CONNECTING}, IDLE)

backoffCallback(s) ==
  IF s.continueConnecting
    THEN transitionToState(s, {TRANSIENT_FAILURE, CONNECTING}, CONNECTING)
    ELSE transitionToState(s, {TRANSIENT_FAILURE, CONNECTING}, IDLE)

keepaliveTimeoutCallback(s) ==
  transitionToState(s, {READY}, IDLE)

\* the callback of session.ping: clearTimeout(this.keepaliveTimeoutId)
pingCallback(s) ==
  clearKeepaliveTimeout(s)

\* what a disconnect listener does with listener()
disconnectListenerBody(s, listener) ==
  IF listener = Once THEN removeDisconnectListener(s, Once) ELSE s

RECURSIVE notifyDisconnectListeners(_, _)

\* for (const listener of this.disconnectListeners) from its i-th step on:
\* the loop reads the array itself
notifyDisconnectListeners(s, i) ==
  IF i > Len(s.disconnectListeners) THEN s
  ELSE LET listener == s.disconnectListeners[i]
           called == [s EXCEPT !.disconnected = Append(@, listener)]
       IN notifyDisconnectListeners(disconnectListenerBody(called, listener), i + 1)

\* the handler of socket.once('close') registered on READY entry; it does not
\* look at the session its socket belongs to
onSocketClose(s, sess) ==
  notifyDisconnectListeners(s, 1)

\* a variant of onConnect without the check this.session === session
onConnect_AnySession(s, sess) ==
  transitionToState(s, {CONNECTING}, READY)

\* the handlers get the standing of the session object their closure holds:
\* this.session === session iff that object is the one this.session refers to
onConnect(s, sess) ==
  IF s.session = sess
    THEN transitionToState(s, {CONNECTING}, READY)
    ELSE s

onClose(s, sess) ==
  IF s.session = sess
    THEN transitionToState(
           transitionToState(s, {CONNECTING}, TRANSIENT_FAILURE),
           {READY}, IDLE)
    ELSE s

\* Math.min(2 * keepaliveTimeMs, KEEPALIVE_MAX_TIME_MS), computed within the
\* 32-bit integers of the model checker
doubledKeepaliveTime(k) ==
  IF k >= KEEPALIVE_MAX_TIME_MS - k THEN KEEPALIVE_MAX_TIME_MS ELSE k + k

\* a variant of tooManyPings that does not compare the payload
tooManyPings_CodeOnly(errorCode, opaqueData) ==
  errorCode = NGHTTP2_ENHANCE_YOUR_CALM

tooManyPings(errorCode, opaqueData) ==
  errorCode = NGHTTP2_ENHANCE_YOUR_CALM /\ opaqueData = tooManyPingsData

onGoaway(s, sess, errorCode, opaqueData) ==
  IF s.session = sess
    THEN LET k == IF tooManyPings(errorCode, opaqueData)
                    THEN [s EXCEPT !.keepaliveTimeMs = doubledKeepaliveTime(@)]
                    ELSE s
         IN transitionToState(k, {CONNECTING, READY}, IDLE)
    ELSE s

----------------------------------------------------------------------------
(* The state machine *)

Op(name, sess) ==
  [op |-> name, sess |-> sess, code |-> 0, data |-> ""]

\* what a finished method leaves for the next state
Done(r, o) ==
  [op |-> o.op, sess |-> o.sess, code |-> o.code, data |-> o.data,
   ret |-> r.ret, threw |-> r.threw, attached |-> r.attached,
   toldBefore |-> r.toldBefore, disconnected |-> r.disconnected]

NoEpisode == [active |-> FALSE, calls |-> 0, forced |-> 0]

Apply(r, o, episode) ==
  /\ connectivityState' = r.connectivityState
  /\ session' = r.session
  /\ continueConnecting' = r.continueConnecting
  /\ stateListeners' = r.stateListeners
  /\ disconnectListeners' = r.disconnectListeners
  /\ supersededSocket' = r.supersededSocket
  /\ lastTold' = r.lastTold
  /\ backoffTimeout' = r.backoffTimeout
  /\ keepaliveTimeMs' = r.keepaliveTimeMs
  /\ keepaliveIntervalId' = r.keepaliveIntervalId
  /\ keepaliveTimeoutId' = r.keepaliveTimeoutId
  /\ callRefcount' = r.callRefcount
  /\ refcount' = r.refcount
  /\ attachedSession' = r.attachedSession
  /\ superseded' = r.superseded
  /\ pings' = r.pings
  /\ orphanInterval' = r.orphanInterval
  /\ orphanTimeout' = r.orphanTimeout
  /\ scope' = scope
  /\ probes' = r.probes
  /\ lastOp' = Done(r, o)
  /\ notified' = r.notified
  /\ refEpisode' = episode

\* a reference-counting call that returned extends the sequence of calls
\* followed from construction; a call that threw, or any other step, ends it
RefCall(r) ==
  IF refEpisode.active /\ ~r.threw /\ refEpisode.calls < MaxRefCalls
    THEN [active |-> TRUE,
          calls |-> refEpisode.calls + 1,
          forced |-> refEpisode.forced +
                       (IF r.ret # <<>> /\ r.ret[Len(r.ret)] THEN 1 ELSE 0)]
    ELSE NoEpisode

\* the subchannel after its constructor, given the keepalive time it sets
Constructed(keepaliveTime) ==
  /\ connectivityState = IDLE
  /\ session = NoSession
  /\ continueConnecting = FALSE
  /\ stateListeners = <<>>
  /\ disconnectListeners = <<>>
  /\ supersededSocket = FALSE
  /\ backoffTimeout = [running |-> FALSE, initial |-> TRUE]
  /\ keepaliveTimeMs = keepaliveTime
  /\ keepaliveIntervalId = FALSE
  /\ keepaliveTimeoutId = FALSE
  /\ callRefcount = 0
  /\ refcount = 0
  /\ attachedSession = NoObject
  /\ superseded = FALSE
  /\ pings = FALSE
  /\ orphanInterval = FALSE
  /\ orphanTimeout = FALSE
  /\ probes = <<>>
  /\ lastOp = Done(NoOutput, Op("constructor", NoSession))
  /\ notified = <<>>
  /\ refEpisode = [active |-> TRUE, calls |-> 0, forced |-> 0]

\* options without 'grpc.keepalive_time_ms'
Init ==
  Constructed(KEEPALIVE_MAX_TIME_MS) /\ scope = {} /\ lastTold = <<>>

\* options with 'grpc.keepalive_time_ms'
InitKeepalive ==
  /\ \E keepaliveTime \in KeepaliveTimeOptions : Constructed(keepaliveTime)
  /\ scope = {}
  /\ lastTold = <<>>

\* the same, with every keepalive probe followed
InitProbes ==
  Constructed(KEEPALIVE_MAX_TIME_MS) /\ scope = {Probes} /\ lastTold = <<>>

\* the same, with what each state listener was told last
InitListeners ==
  /\ Constructed(KEEPALIVE_MAX_TIME_MS)
  /\ scope = {Listeners}
  /\ lastTold = [l \in StateListenerIds \cup {Heir} |-> NotTold]

\* the same, with the sockets of the sessions
InitSockets ==
  Constructed(KEEPALIVE_MAX_TIME_MS) /\ scope = {Sockets} /\ lastTold = <<>>

CallRef ==
  /\ callRefcount < MaxRefs
  /\ Len(probes) < MaxProbes
  /\ LET r == callRef(Sub) IN Apply(r, Op("callRef", NoSession), RefCall(r))

\* the counter may pass below zero once
CallUnref ==
  /\ callRefcount >= 0
  /\ LET r == callUnref(Sub) IN Apply(r, Op("callUnref", NoSession), RefCall(r))

Ref ==
  /\ refcount < MaxRefs
  /\ LET r == ref(Sub) IN Apply(r, Op("ref", NoSession), RefCall(r))

\* the counter may pass below zero once
Unref ==
  /\ refcount >= 0
  /\ LET r == unref(Sub) IN Apply(r, Op("unref", NoSession), RefCall(r))

UnrefIfOneRef ==
  Apply(unrefIfOneRef(Sub), Op("unrefIfOneRef", NoSession), NoEpisode)

StartCallStream ==
  Apply(startCallStream(Sub), Op("startCallStream", NoSession), NoEpisode)

StartConnecting ==
  Apply(startConnecting(Sub), Op("startConnecting", NoSession), NoEpisode)

ResetBackoff ==
  Apply(resetBackoff(Sub), Op("resetBackoff", NoSession), NoEpisode)

AddConnectivityStateListener ==
  /\ Len(stateListeners) < MaxListeners
  /\ \E l \in ListenerIds :
       Apply(addConnectivityStateListener(Sub, l),
             Op("addConnectivityStateListener", NoSession), NoEpisode)

RemoveConnectivityStateListener ==
  \E l \in ListenerIds :
    Apply(removeConnectivityStateListener(Sub, l),
          Op("removeConnectivityStateListener", NoSession), NoEpisode)

Registered(listeners) ==
  {listeners[i] : i \in DOMAIN listeners}

\* a caller registers a state listener it has not registered yet; the Heir
\* is registered by a Replacer only
RegisterStateListener ==
  /\ Len(stateListeners) < MaxRegistered
  /\ \E l \in StateListenerIds \ Registered(stateListeners) :
       /\ l = Replacer => Heir \notin Registered(stateListeners)
       /\ Apply(addConnectivityStateListener(Sub, l),
                Op("addConnectivityStateListener", NoSession), NoEpisode)

UnregisterStateListener ==
  \E l \in Registered(stateListeners) :
    Apply(removeConnectivityStateListener(Sub, l),
          Op("removeConnectivityStateListener", NoSession), NoEpisode)

\* a call registers a disconnect listener it has not registered yet
AddDisconnectListener ==
  /\ Len(disconnectListeners) < MaxRegistered
  /\ \E l \in DisconnectListenerIds \ Registered(disconnectListeners) :
       Apply(addDisconnectListener(Sub, l),
             Op("addDisconnectListener", NoSession), NoEpisode)

RemoveDisconnectListener ==
  \E l \in Registered(disconnectListeners) :
    Apply(removeDisconnectListener(Sub, l),
          Op("removeDisconnectListener", NoSession), NoEpisode)

\* the timer of the BackoffTimeout fires: it is no longer running, and the
\* callback given to the constructor runs
BackoffFire ==
  /\ backoffTimeout.running
  /\ Apply(backoffCallback([Sub EXCEPT !.backoffTimeout.running = FALSE]),
           Op("backoff", NoSession), NoEpisode)

\* a setInterval timer fires and stays pending
KeepaliveIntervalFire ==
  /\ keepaliveIntervalId \/ orphanInterval
  /\ Len(probes) < MaxProbes
  /\ Apply(sendPing(Sub), Op("keepaliveInterval", NoSession), NoEpisode)

\* the setTimeout timer this.keepaliveTimeoutId refers to fires
KeepaliveTimeoutFire ==
  /\ keepaliveTimeoutId
  /\ Apply(keepaliveTimeoutCallback(
             [setLatestTimer(Sub, "fired") EXCEPT !.keepaliveTimeoutId = FALSE]),
           Op("keepaliveTimeout", NoSession), NoEpisode)

\* the setTimeout timer of an earlier ping fires; others may remain
OrphanTimeoutFire ==
  /\ orphanTimeout
  /\ \E more \in BOOLEAN :
       Apply(keepaliveTimeoutCallback([Sub EXCEPT !.orphanTimeout = more]),
             Op("orphanTimeout", NoSession), NoEpisode)

\* the transport answers or cancels a ping; others may remain
PingAck ==
  /\ pings
  /\ \E more \in BOOLEAN :
       Apply(pingCallback([Sub EXCEPT !.pings = more]),
             Op("pingAck", NoSession), NoEpisode)

\* the callbacks the transport holds, and the timers no field refers to, of
\* the probes that are followed
Unanswered(i) ==
  i \in DOMAIN probes /\ probes[i].sent /\ probes[i].answer = "none"

Orphaned(i) ==
  i \in 1..(Len(probes) - 1) /\ probes[i].timer = "pending"

\* the peer of the current, connected session acknowledges a probe
ProbeAck ==
  /\ session = Attached
  /\ attachedSession.alive
  /\ attachedSession.connected
  /\ \E i \in DOMAIN probes :
       /\ Unanswered(i)
       /\ probes[i].current
       /\ Apply(pingCallback([Sub EXCEPT
                   !.probes[i].answer = "acked",
                   !.pings = \E j \in DOMAIN probes : j # i /\ Unanswered(j)]),
                Op("pingAck", NoSession), NoEpisode)

\* a session that was closed cancels a ping it still holds
ProbeCancel ==
  \E i \in DOMAIN probes :
    /\ Unanswered(i)
    /\ ~probes[i].current
    /\ Apply(pingCallback([Sub EXCEPT
                !.probes[i].answer = "cancelled",
                !.pings = \E j \in DOMAIN probes : j # i /\ Unanswered(j)]),
             Op("pingCancel", NoSession), NoEpisode)

\* the setTimeout timer of a probe before the latest fires
ProbeTimeoutFire ==
  \E i \in DOMAIN probes :
    /\ Orphaned(i)
    /\ Apply(keepaliveTimeoutCallback([Sub EXCEPT
                !.probes[i].timer = "fired",
                !.orphanTimeout = \E j \in DOMAIN probes : j # i /\ Orphaned(j)]),
             Op("orphanTimeout", NoSession), NoEpisode)

\* session.once('connect') of the attached session object
SessionConnect ==
  /\ session = Attached
  /\ attachedSession.alive
  /\ ~attachedSession.connected
  /\ Apply(onConnect([Sub EXCEPT !.attachedSession.connected = TRUE], Attached),
           Op("connect", Attached), NoEpisode)

\* session.once('close') of the attached session object: its last event
SessionClose ==
  /\ session = Attached
  /\ attachedSession.alive
  /\ Apply(onClose([Sub EXCEPT !.attachedSession.alive = FALSE], Attached),
           Op("close", Attached), NoEpisode)

\* session.once('goaway') of the attached session object
SessionGoaway ==
  /\ session = Attached
  /\ attachedSession.alive
  /\ ~attachedSession.goaway
  /\ \E errorCode \in GoawayCodes, opaqueData \in GoawayData :
       Apply(onGoaway([Sub EXCEPT !.attachedSession.goaway = TRUE],
                      Attached, errorCode, opaqueData),
             [op |-> "goaway", sess |-> Attached,
              code |-> errorCode, data |-> opaqueData],
             NoEpisode)

\* the same events of a superseded session object
SupersededConnect ==
  /\ superseded
  /\ Apply(onConnect(Sub, Superseded), Op("connect", Superseded), NoEpisode)

SupersededClose ==
  /\ superseded
  /\ \E more \in BOOLEAN :
       Apply(onClose([Sub EXCEPT !.superseded = more], Superseded),
             Op("close", Superseded), NoEpisode)

SupersededGoaway ==
  /\ superseded
  /\ \E errorCode \in GoawayCodes, opaqueData \in GoawayData :
       Apply(onGoaway(Sub, Superseded, errorCode, opaqueData),
             [op |-> "goaway", sess |-> Superseded,
              code |-> errorCode, data |-> opaqueData],
             NoEpisode)

\* the socket of the attached session object emits 'close'
SocketClose ==
  /\ session = Attached
  /\ attachedSession.socketClose
  /\ Apply(onSocketClose([Sub EXCEPT !.attachedSession.socketClose = FALSE],
                         Attached),
           Op("socketClose", Attached), NoEpisode)

\* the socket of a superseded session object emits 'close'; others may remain
SupersededSocketClose ==
  /\ supersededSocket
  /\ \E more \in BOOLEAN :
       Apply(onSocketClose([Sub EXCEPT !.supersededSocket = more], Superseded),
             Op("socketClose", Superseded), NoEpisode)

Next ==
  \/ CallRef
  \/ CallUnref
  \/ Ref
  \/ Unref
  \/ UnrefIfOneRef
  \/ StartCallStream
  \/ StartConnecting
  \/ ResetBackoff
  \/ AddConnectivityStateListener
  \/ RemoveConnectivityStateListener
  \/ BackoffFire
  \/ KeepaliveIntervalFire
  \/ KeepaliveTimeoutFire
  \/ OrphanTimeoutFire
  \/ PingAck
  \/ SessionConnect
  \/ SessionClose
  \/ SessionGoaway
  \/ SupersededConnect
  \/ SupersededClose
  \/ SupersededGoaway

Spec == Init /\ [][Next]_vars

\* the connection attempts, the session events and the keepalive of a
\* subchannel made with a keepalive time option
NextKeepalive ==
  \/ CallRef
  \/ CallUnref
  \/ StartConnecting
  \/ ResetBackoff
  \/ BackoffFire
  \/ KeepaliveIntervalFire
  \/ KeepaliveTimeoutFire
  \/ OrphanTimeoutFire
  \/ PingAck
  \/ SessionConnect
  \/ SessionClose
  \/ SessionGoaway
  \/ SupersededConnect
  \/ SupersededClose
  \/ SupersededGoaway

SpecKeepalive == InitKeepalive /\ [][NextKeepalive]_vars

\* the calls, the connection attempts, the session events and the keepalive
\* with every probe followed
NextProbes ==
  \/ CallRef
  \/ CallUnref
  \/ StartConnecting
  \/ BackoffFire
  \/ KeepaliveIntervalFire
  \/ KeepaliveTimeoutFire
  \/ ProbeTimeoutFire
  \/ ProbeAck
  \/ ProbeCancel
  \/ SessionConnect
  \/ SessionClose
  \/ SessionGoaway

SpecProbes == InitProbes /\ [][NextProbes]_vars

\* the connection attempts and the session events, with state listeners that
\* call back into the subchannel
NextListeners ==
  \/ RegisterStateListener
  \/ UnregisterStateListener
  \/ StartConnecting
  \/ BackoffFire
  \/ SessionConnect
  \/ SessionClose
  \/ SessionGoaway

SpecListeners == InitListeners /\ [][NextListeners]_vars

\* the connection attempts and the session events, with the sockets of the
\* sessions and the disconnect listeners of the calls
NextSockets ==
  \/ AddDisconnectListener
  \/ RemoveDisconnectListener
  \/ StartConnecting
  \/ BackoffFire
  \/ SessionConnect
  \/ SessionClose
  \/ SessionGoaway
  \/ SocketClose
  \/ SupersededSocketClose

SpecSockets == InitSockets /\ [][NextSockets]_vars

\* the owners' references, the connection attempts and the session events;
\* the timer of the BackoffTimeout fires once its delay has passed
NextReconnect ==
  \/ Ref
  \/ Unref
  \/ StartConnecting
  \/ ResetBackoff
  \/ BackoffFire
  \/ SessionConnect
  \/ SessionClose
  \/ SessionGoaway
  \/ SupersededConnect
  \/ SupersededClose
  \/ SupersededGoaway

SpecReconnect == Init /\ [][NextReconnect]_vars /\ WF_vars(BackoffFire)

----------------------------------------------------------------------------
(* Properties *)

\* C1: in every reachable state the subchannel holds a session handle if and
\* only if connectivityState is CONNECTING or READY (session is null iff the
\* state is IDLE or TRANSIENT_FAILURE).
C1_SessionIffConnectingOrReady ==
  (session # NoSession) <=> (connectivityState \in {CONNECTING, READY})

\* a READY subchannel received a GOAWAY and dropped its session
C1_Witness ==
  /\ lastOp.op = "goaway"
  /\ lastOp.sess = Attached
  /\ connectivityState = IDLE
  /\ session = NoSession
  /\ superseded

\* C2: a connect, close or goaway event of a session object that is not the
\* subchannel's current session changes neither connectivityState, nor the
\* stored session, nor keepaliveTimeMs.
C2_StaleEventsIgnored ==
  [][(lastOp'.op \in {"connect", "close", "goaway"} /\ lastOp'.sess = Superseded)
       => /\ connectivityState' = connectivityState
          /\ session' = session
          /\ attachedSession' = attachedSession
          /\ keepaliveTimeMs' = keepaliveTimeMs
          /\ notified' = <<>>]_vars

\* the 'connect' of an earlier session arrived during a newer attempt
C2_Witness ==
  /\ lastOp.op = "connect"
  /\ lastOp.sess = Superseded
  /\ connectivityState = CONNECTING
  /\ session = Attached
  /\ ~attachedSession.connected

\* the transition table: the (From set, To) rows of each trigger
Rows(op, pending) ==
  CASE op = "startConnecting" -> {<<{IDLE}, CONNECTING>>}
    [] op = "connect" -> {<<{CONNECTING}, READY>>}
    [] op = "close" -> {<<{CONNECTING}, TRANSIENT_FAILURE>>, <<{READY}, IDLE>>}
    [] op = "goaway" -> {<<{CONNECTING, READY}, IDLE>>}
    [] op = "backoff" ->
         IF pending
           THEN {<<{TRANSIENT_FAILURE, CONNECTING}, CONNECTING>>}
           ELSE {<<{TRANSIENT_FAILURE, CONNECTING}, IDLE>>}
    [] op \in {"keepaliveTimeout", "orphanTimeout"} -> {<<{READY}, IDLE>>}
    [] op \in {"unref", "callUnref", "unrefIfOneRef"} ->
         {<<{CONNECTING, IDLE, READY}, TRANSIENT_FAILURE>>}
    [] op = "resetBackoff" -> {<<{TRANSIENT_FAILURE}, CONNECTING>>}
    [] OTHER -> {}

Succeeded(ret) == \E i \in DOMAIN ret : ret[i]

\* C3: every state change is an edge of the transition table for its trigger;
\* a trigger that arrives while the state is outside its From set returns
\* false, changes neither state nor session and notifies no listener; and a
\* transitionToState whose From set does not hold the state returns false and
\* leaves state, session and timers as they are.
C3_GuardedTransitions ==
  [][LET R == Rows(lastOp'.op, continueConnecting)
     IN /\ (\/ connectivityState' # connectivityState
            \/ notified' # <<>>
            \/ Succeeded(lastOp'.ret))
             => \E row \in R : /\ connectivityState \in row[1]
                                /\ connectivityState' = row[2]
        /\ (\A row \in R : connectivityState \notin row[1])
             => /\ connectivityState' = connectivityState
                /\ session' = session
                /\ notified' = <<>>
                /\ ~Succeeded(lastOp'.ret)
        /\ \A row \in R :
             connectivityState \notin row[1]
               => LET r == transitionToState(Sub, row[1], row[2])
                  IN /\ Core(r) = Core(Sub)
                     /\ r.ret = <<FALSE>>
                     /\ r.notified = <<>>]_vars

\* resetBackoff on a READY subchannel with a listener: the guard failed
C3_Witness ==
  /\ lastOp.op = "resetBackoff"
  /\ lastOp.ret = <<FALSE>>
  /\ connectivityState = READY
  /\ stateListeners # <<>>
  /\ notified = <<>>

\* C4: from callRefcount = 0 and refcount = 0, any sequence of ref, unref,
\* callRef and callUnref calls that returns both counters to 0 makes exactly
\* one forced transition to TRANSIENT_FAILURE.
C4_OneForcedTransition ==
  (/\ refEpisode.active
   /\ refEpisode.calls > 0
   /\ callRefcount = 0
   /\ refcount = 0) => refEpisode.forced = 1

\* C5: callRefcount and refcount are never below 0.
C5_CountersNonNegative ==
  callRefcount >= 0 /\ refcount >= 0

\* C6: startConnecting in IDLE moves to CONNECTING; in TRANSIENT_FAILURE it
\* sets continueConnecting and changes nothing else; in CONNECTING or READY
\* it changes nothing; and a second call right after changes nothing.
C6_StartConnectingIdempotent ==
  [][lastOp'.op = "startConnecting"
       => /\ connectivityState = IDLE => connectivityState' = CONNECTING
          /\ connectivityState = TRANSIENT_FAILURE
               => /\ continueConnecting'
                  /\ Core(Sub') = [Core(Sub) EXCEPT !.continueConnecting = TRUE]
          /\ connectivityState \in {CONNECTING, READY} => Core(Sub') = Core(Sub)
          /\ Core(startConnecting(Sub')) = Core(Sub')]_vars

\* startConnecting was called in TRANSIENT_FAILURE and set the flag
C6_Witness ==
  /\ lastOp.op = "startConnecting"
  /\ lastOp.ret = <<FALSE>>
  /\ connectivityState = TRANSIENT_FAILURE
  /\ continueConnecting

\* C7, as stated: once startConnecting was called in TRANSIENT_FAILURE,
\* however that state was entered, the subchannel eventually is CONNECTING.
C7_ReconnectFromAnyFailure ==
  (connectivityState = TRANSIENT_FAILURE /\ continueConnecting)
    ~> (connectivityState = CONNECTING)

\* C7, amended: once startConnecting was called in TRANSIENT_FAILURE while
\* the backoff timer is running, the subchannel eventually is CONNECTING.
C7_ReconnectAfterBackoff ==
  (/\ connectivityState = TRANSIENT_FAILURE
   /\ continueConnecting
   /\ backoffTimeout.running)
    ~> (connectivityState = CONNECTING)

\* the backoff timer fired with the flag set and a new attempt began
C7_Witness ==
  /\ lastOp.op = "backoff"
  /\ lastOp.ret = <<TRUE>>
  /\ connectivityState = CONNECTING
  /\ session = Attached

\* C8: startCallStream in a state other than READY raises an error and
\* attaches no stream to the call.
C8_StartCallStreamNeedsReady ==
  (lastOp.op = "startCallStream" /\ connectivityState # READY)
    => (lastOp.threw /\ ~lastOp.attached)

\* C9: a GOAWAY of the current session with the excessive-pings code and the
\* payload 'too_many_pings' sets keepaliveTimeMs to
\* min(2 * keepaliveTimeMs, KEEPALIVE_MAX_TIME_MS); no other step changes
\* keepaliveTimeMs, which never exceeds the maximum.
C9_KeepaliveDoublingCapped ==
  [][/\ keepaliveTimeMs' <= KEEPALIVE_MAX_TIME_MS
     /\ IF /\ lastOp'.op = "goaway"
           /\ lastOp'.sess = Attached
           /\ lastOp'.code = NGHTTP2_ENHANCE_YOUR_CALM
           /\ lastOp'.data = tooManyPingsData
          THEN IF keepaliveTimeMs <= KEEPALIVE_MAX_TIME_MS \div 2
                 THEN keepaliveTimeMs' = 2 * keepaliveTimeMs
                 ELSE keepaliveTimeMs' = KEEPALIVE_MAX_TIME_MS
          ELSE keepaliveTimeMs' = keepaliveTimeMs]_vars

\* the keepalive time was doubled below the maximum
C9_Witness ==
  /\ lastOp.op = "goaway"
  /\ lastOp.sess = Attached
  /\ lastOp.code = NGHTTP2_ENHANCE_YOUR_CALM
  /\ lastOp.data = tooManyPingsData
  /\ keepaliveTimeMs = 2 * (KEEPALIVE_MAX_TIME_MS \div 2)
  /\ keepaliveTimeMs < KEEPALIVE_MAX_TIME_MS

\* C10: while callRefcount is 0, or the state is IDLE or TRANSIENT_FAILURE,
\* neither the recurring probe schedule nor any probe timeout is pending.
C10_KeepaliveOnlyWithCalls ==
  (callRefcount = 0 \/ connectivityState \in {IDLE, TRANSIENT_FAILURE})
    => /\ ~keepaliveIntervalId
       /\ ~keepaliveTimeoutId
       /\ ~orphanInterval
       /\ ~orphanTimeout

\* C11: in every reachable state where the subchannel is READY and
\* callRefcount > 0, the recurring keepalive probe schedule is armed, also
\* after a session was lost and READY was reached again with calls held.
C11_KeepaliveArmedWhileReadyWithCalls ==
  (connectivityState = READY /\ callRefcount > 0)
    => (keepaliveIntervalId \/ orphanInterval)

\* C12: a probe the transport acknowledged before its timeout fired has its
\* timeout cancelled, so that timeout never forces READY -> IDLE and only a
\* probe left unacknowledged does; also when a later probe was issued before
\* the earlier one was acknowledged.
C12_AckedProbeTimeoutCancelled ==
  \A i \in DOMAIN probes :
    probes[i].answer = "acked" => probes[i].timer # "pending"

\* a step that entered CONNECTING
EntersConnecting ==
  Succeeded(lastOp'.ret) /\ connectivityState' = CONNECTING

\* C15: every entry into CONNECTING happens with the previous session closed
\* and cleared: no session is overwritten in this.session without close()
\* having been called on it.
C15_NoSessionOverwritten ==
  [][EntersConnecting
       => /\ session = NoSession
          /\ attachedSession = NoObject
          /\ session' = Attached
          /\ attachedSession' = NewSession]_vars

\* resetBackoff began a new attempt while the session object of the failed
\* one, closed and cleared, has not emitted 'close' yet
C15_Witness ==
  /\ lastOp.op = "resetBackoff"
  /\ lastOp.ret = <<TRUE>>
  /\ connectivityState = CONNECTING
  /\ session = Attached
  /\ superseded

\* C16: the backoff timer is stopped before it is restarted: every runOnce
\* of a CONNECTING entry finds the timer not armed, whether the entry comes
\* from startConnecting in IDLE, from the timer firing with the flag set (a
\* timer that fired is no longer armed) or from resetBackoff in
\* TRANSIENT_FAILURE.
C16_BackoffStoppedBeforeRestart ==
  [][(EntersConnecting /\ lastOp'.op # "backoff") => ~backoffTimeout.running]_vars

\* C17: when the current session closes during CONNECTING the state becomes
\* TRANSIENT_FAILURE with the backoff timer armed; when the timer fires with
\* the flag not set the state becomes IDLE; so the subchannel stays neither
\* in CONNECTING nor in a TRANSIENT_FAILURE entered from CONNECTING forever.
C17_FailedAttemptRecovers ==
  /\ [][(/\ lastOp'.op = "close"
          /\ lastOp'.sess = Attached
          /\ connectivityState = CONNECTING)
           => (/\ connectivityState' = TRANSIENT_FAILURE
               /\ backoffTimeout'.running)]_vars
  /\ [][(lastOp'.op = "backoff" /\ ~continueConnecting)
           => connectivityState' = IDLE]_vars
  /\ (connectivityState = CONNECTING) ~> (connectivityState # CONNECTING)
  /\ (connectivityState = TRANSIENT_FAILURE /\ backoffTimeout.running)
       ~> (connectivityState # TRANSIENT_FAILURE)

\* the session of an attempt closed: TRANSIENT_FAILURE, the timer is armed
C17_Witness ==
  /\ lastOp.op = "close"
  /\ lastOp.sess = Attached
  /\ lastOp.ret = <<TRUE, FALSE>>
  /\ connectivityState = TRANSIENT_FAILURE
  /\ backoffTimeout.running

\* C18: continueConnecting is true only in TRANSIENT_FAILURE; every way of
\* leaving TRANSIENT_FAILURE with the flag set goes to CONNECTING and clears
\* it; so the backoff timer firing in CONNECTING goes to IDLE, never to
\* CONNECTING again.
C18_FlagOnlyInTransientFailure ==
  [][/\ continueConnecting => connectivityState = TRANSIENT_FAILURE
     /\ continueConnecting' => connectivityState' = TRANSIENT_FAILURE
     /\ (/\ connectivityState = TRANSIENT_FAILURE
         /\ continueConnecting
         /\ connectivityState' # TRANSIENT_FAILURE)
          => connectivityState' = CONNECTING /\ ~continueConnecting'
     /\ (lastOp'.op = "backoff" /\ connectivityState = CONNECTING)
          => connectivityState' = IDLE]_vars

\* the backoff timer fired during CONNECTING: the listener was told of IDLE
C18_Witness ==
  /\ lastOp.op = "backoff"
  /\ notified = << <<"listener", CONNECTING, IDLE>> >>
  /\ ~continueConnecting

Count(listeners, l) ==
  Cardinality({i \in DOMAIN listeners : listeners[i] = l})

\* C13: when the socket of the READY session closes, every disconnect
\* listener registered at that moment is invoked exactly once, also when a
\* listener unregisters itself or another one while it is notified.
C13_DisconnectListenersEachOnce ==
  [][(lastOp'.op = "socketClose" /\ lastOp'.sess = Attached)
       => \A l \in DisconnectListenerIds :
            Count(lastOp'.disconnected, l) = Count(disconnectListeners, l)]_vars

\* the calls of the listeners that belong to the outermost transition of a
\* step: those with its pair of states
Outermost(calls) ==
  SelectSeq(calls, LAMBDA c : c[2] = calls[1][2] /\ c[3] = calls[1][3])

\* C14: a successful transition invokes each state listener registered when
\* it takes effect exactly once, with (previousState, newState): a listener
\* removed during the notification is still invoked for this transition, one
\* added during the notification is not.
C14_StateListenersSnapshot ==
  [][(Succeeded(lastOp'.ret) /\ stateListeners # <<>>)
       => /\ notified' # <<>>
          /\ notified'[1][2] = connectivityState
          /\ \E row \in Rows(lastOp'.op, continueConnecting) :
                /\ connectivityState \in row[1]
                /\ notified'[1][3] = row[2]
          /\ Outermost(notified') =
               [i \in 1..Len(stateListeners) |->
                  <<stateListeners[i], notified'[1][2], notified'[1][3]>>]]_vars

\* a Replacer unregistered itself and "listener" while it was notified, and
\* "listener" was still called for that transition; the Heir was not
C14_Witness ==
  /\ Len(notified) = 2
  /\ notified[1][1] = Replacer
  /\ notified[2][1] = "listener"
  /\ stateListeners = <<Heir>>

\* C19: each state listener observes the transitions in order: the
\* previousState of every notification it receives is the newState of the
\* notification it received just before, also when another listener calls
\* back into the subchannel from its callback.
C19_ListenersSeeTransitionsInOrder ==
  \A k \in DOMAIN notified :
    lastOp.toldBefore[k] \in {NotTold, notified[k][2]}

\* C20: the disconnect listeners are invoked only for the socket close of
\* the current READY session; the socket of a superseded session that closes
\* late invokes none of them.
C20_DisconnectOnlyForCurrentSession ==
  lastOp.disconnected # <<>>
    => (lastOp.op = "socketClose" /\ lastOp.sess = Attached)

====
